---- MODULE Spec2Model ----
(***************************************************************************)
(* Model of the Gemini Canvas text-processing proxy:                       *)
(*   gemini_canvas_app.py  - the FastAPI service (module start-up and the  *)
(*                           handlers of /process, /generate, /health,     *)
(*                           /models and the test page's processText())    *)
(*   app_streamlit.py      - the interactive Streamlit script              *)
(*                                                                         *)
(* Strings are sequences.  A literal of the source is one element (the     *)
(* literal itself); text typed by a user is a sequence of characters.      *)
(* f-string interpolation is concatenation (\o).                           *)
(***************************************************************************)
EXTENDS Integers, Sequences, FiniteSets, TLC

(* ---------------------------- bounds ---------------------------------- *)
MaxLen == 2          \* longest user text / prompt that is enumerated
NReq == 2            \* request slots the service handles concurrently

(* ------------------------- values and strings ------------------------- *)
None == [some |-> FALSE, v |-> <<>>]
Some(x) == [some |-> TRUE, v |-> x]

Chars == {" ", "a"}

SeqsUpTo(S, n) == UNION {[1..k -> S] : k \in 0..n}

IsSpace(c) == c \in {" ", "\t", "\n", "\r"}

RECURSIVE LStrip(_)
LStrip(s) == IF s # <<>> /\ IsSpace(Head(s)) THEN LStrip(Tail(s)) ELSE s

RECURSIVE RStrip(_)
RStrip(s) ==
    IF s # <<>> /\ IsSpace(s[Len(s)]) THEN RStrip(SubSeq(s, 1, Len(s) - 1)) ELSE s

\* str.strip()
Strip(s) == RStrip(LStrip(s))

\* Python truthiness of a str / of an Optional[str]
Truthy(s) == s # <<>>
TruthyOpt(o) == o.some /\ o.v # <<>>

StartsWith(s, p) == Len(p) <= Len(s) /\ SubSeq(s, 1, Len(p)) = p
EndsWith(s, p) == Len(p) <= Len(s) /\ SubSeq(s, Len(s) - Len(p) + 1, Len(s)) = p
Contains(s, p) == \E i \in 0..(Len(s) - Len(p)) : SubSeq(s, i + 1, i + Len(p)) = p

(* ------------------------ request models ------------------------------ *)
Actions == {"rewrite", "summarize", "expand", "improve", "simplify"}

\* class TextRequest(BaseModel)
TextRequest(text, action, style) == [text |-> text, action |-> action, style |-> style]

\* class GenerateRequest(BaseModel); max_tokens defaults to 1000
GenerateRequest(prompt, max_tokens) == [prompt |-> prompt, max_tokens |-> max_tokens]

DefaultMaxTokens == 1000

NoBody == [empty |-> TRUE]

(* ------------------------ prompt building ----------------------------- *)
\* the fixed text of each entry of prompt_map, up to {style_modifier}
Template(action) ==
    CASE action = "rewrite" -> <<"Rewrite the following text in a clear, concise manner">>
      [] action = "summarize" -> <<"Summarize the following text concisely">>
      [] action = "expand" -> <<"Expand the following into more detailed content">>
      [] action = "improve" -> <<"Improve the following text for clarity and engagement">>
      [] action = "simplify" -> <<"Simplify the following text to make it easier to understand">>

\* as if the test were "if req.style is not None"
StyleModifierNotNone(style) ==
    IF style.some THEN <<" Make the tone ">> \o style.v \o <<".">> ELSE <<>>

\* style_modifier = "" ; if req.style: style_modifier = f" Make the tone {req.style}."
StyleModifier(style) ==
    IF TruthyOpt(style) THEN <<" Make the tone ">> \o style.v \o <<".">> ELSE <<>>

\* as if the entry interpolated req.text.strip()
PromptEntryStripped(action, style, text) ==
    Template(action) \o StyleModifier(style) \o <<":\n\n">> \o Strip(text)

\* one entry of prompt_map
PromptEntry(action, style, text) ==
    Template(action) \o StyleModifier(style) \o <<":\n\n">> \o text

\* as if the lookup fell back to the rewrite entry
PromptMapGetDefault(req) ==
    IF req.action \in Actions
    THEN Some(PromptEntry(req.action, req.style, req.text))
    ELSE Some(PromptEntry("rewrite", req.style, req.text))

\* prompt_map.get(req.action): None for a key that is not in the dict
PromptMapGet(req) ==
    IF req.action \in Actions
    THEN Some(PromptEntry(req.action, req.style, req.text))
    ELSE None

(* --------------------------- responses -------------------------------- *)
HTTPException(status_code, detail) == [status |-> status_code, detail |-> detail]
Ok(body) == [status |-> 200, body |-> body]
NoResponse == [status |-> 0]

\* str() of an HTTPException that is caught again by "except Exception"
StrHTTPException(e) == <<"500: ">> \o e.detail

(* --------------------------- the external API ------------------------- *)
\* what model.generate_content / client.models.generate_content can do:
\* return a response whose .text is some text (possibly empty), or raise
ReplyTexts == {<<"x">>, <<"y">>}
ErrMsgs == {<<"quota exceeded">>, <<"API key not valid">>}
ModelNames == <<"models/gemini-2.5-flash", "models/gemini-2.0-flash">>

NoReply == [kind |-> "none", v |-> <<>>]
TextReply(t) == [kind |-> "text", v |-> t]
Raised(m) == [kind |-> "exception", v |-> m]
ListReply(l) == [kind |-> "list", v |-> l]

GenerateOutcomes ==
    {TextReply(t) : t \in ReplyTexts \cup {<<>>}} \cup {Raised(m) : m \in ErrMsgs}
ListOutcomes == {ListReply(ModelNames)} \cup {Raised(m) : m \in ErrMsgs}

(* ------------------------------ state --------------------------------- *)
VARIABLES
    API_KEY,    \* os.getenv("GEMINI_API_KEY"): None, "" or a key
    svc,        \* where the service module is: "import", "crashed", "serving"
    reqs,       \* the frame of each request slot of the service
    run         \* the current run of the Streamlit script

vars == <<API_KEY, svc, reqs, run>>

Slots == 1..NReq

IdleFrame ==
    [pc |-> "idle", endpoint |-> "none", req |-> NoBody, call |-> None,
     ncalls |-> 0, reply |-> NoReply, response |-> NoResponse]

IdleRun ==
    [pc |-> "idle", submitted |-> FALSE, prompt |-> <<>>, call |-> None,
     ncalls |-> 0, reply |-> NoReply, display |-> NoReply]

KeyValues == {None, Some(<<>>), Some(<<"k">>)}

Init ==
    /\ API_KEY \in KeyValues
    /\ svc = "import"
    /\ reqs = [r \in Slots |-> IdleFrame]
    /\ run = IdleRun

(* ------------------------ service start-up ---------------------------- *)
\* as if the check were "if API_KEY is None"
KeyMissingIsNone(k) == ~k.some

\* if not API_KEY: raise ValueError(...)
KeyMissing(k) == ~TruthyOpt(k)

\* module level of gemini_canvas_app.py: the key check, genai.configure,
\* the model handle, the app and its routes
Startup ==
    /\ svc = "import"
    /\ svc' = IF KeyMissing(API_KEY) THEN "crashed" ELSE "serving"
    /\ UNCHANGED <<API_KEY, reqs, run>>

\* a request can be routed to a handler only once the module has been loaded
Accepts(r) == svc = "serving" /\ reqs[r].pc = "idle"

Done(r, endpoint, req, response) ==
    reqs' = [reqs EXCEPT ![r] =
        [@ EXCEPT !.pc = "done", !.endpoint = endpoint, !.req = req,
                  !.response = response]]

Calling(r, endpoint, req, arg) ==
    reqs' = [reqs EXCEPT ![r] =
        [@ EXCEPT !.pc = "calling", !.endpoint = endpoint, !.req = req,
                  !.call = Some(arg), !.ncalls = @ + 1]]

\* as if req were kept in one module-level variable that the handlers share
ReqOfShared(r) ==
    reqs[CHOOSE q \in Slots :
            reqs[q].pc = "calling" /\ reqs[q].endpoint = reqs[r].endpoint].req

\* the handler's own parameter and locals
ReqOf(r) == reqs[r].req

\* as if a failed call were tried again
ReturnedRetry(r, outcome, response) ==
    reqs' = [reqs EXCEPT ![r] =
        IF response.status = 500
        THEN [@ EXCEPT !.ncalls = @ + 1]
        ELSE [@ EXCEPT !.pc = "done", !.reply = outcome, !.response = response]]

Returned(r, outcome, response) ==
    reqs' = [reqs EXCEPT ![r] =
        [@ EXCEPT !.pc = "done", !.reply = outcome, !.response = response]]

(* ----------------------------- /process ------------------------------- *)
\* as if the check were "if not req.text"
TextIsEmptyNoStrip(req) == ~Truthy(req.text)

\* if not req.text.strip()
TextIsEmpty(req) == ~Truthy(Strip(req.text))

\* process_text up to the call of model.generate_content(prompt)
ProcessText(r, req) ==
    /\ Accepts(r)
    /\ IF TextIsEmpty(req)
       THEN Done(r, "process", req, HTTPException(400, <<"Text cannot be empty">>))
       ELSE LET prompt == PromptMapGet(req) IN
            IF ~TruthyOpt(prompt)
            THEN Done(r, "process", req,
                      HTTPException(400, <<"Unsupported action: ", req.action>>))
            ELSE Calling(r, "process", req, prompt.v)
    /\ UNCHANGED <<API_KEY, svc, run>>

\* as if the except clause reported a fixed message
ProcessTextResultGeneric(req, outcome) ==
    IF outcome.kind = "exception" \/ ~Truthy(outcome.v)
    THEN HTTPException(500, <<"Error processing text">>)
    ELSE Ok([result |-> outcome.v, action |-> req.action, style |-> req.style])

\* the try block of process_text once the call has returned or raised
ProcessTextResult(req, outcome) ==
    IF outcome.kind = "exception"
    THEN HTTPException(500, <<"Error processing text: ">> \o outcome.v)
    ELSE IF ~Truthy(outcome.v)
    THEN HTTPException(500, <<"Error processing text: ">>
             \o StrHTTPException(HTTPException(500, <<"No response generated">>)))
    ELSE Ok([result |-> outcome.v, action |-> req.action, style |-> req.style])

ProcessTextReturn(r, outcome) ==
    /\ reqs[r].pc = "calling"
    /\ reqs[r].endpoint = "process"
    /\ Returned(r, outcome, ProcessTextResult(ReqOf(r), outcome))
    /\ UNCHANGED <<API_KEY, svc, run>>

(* ----------------------------- /generate ------------------------------ *)
\* if not req.prompt.strip()
PromptIsEmpty(req) == ~Truthy(Strip(req.prompt))

\* generate_content up to the call of model.generate_content(req.prompt)
GenerateContent(r, req) ==
    /\ Accepts(r)
    /\ IF PromptIsEmpty(req)
       THEN Done(r, "generate", req, HTTPException(400, <<"Prompt cannot be empty">>))
       ELSE Calling(r, "generate", req, req.prompt)
    /\ UNCHANGED <<API_KEY, svc, run>>

\* the try block of generate_content once the call has returned or raised
GenerateContentResult(req, outcome) ==
    IF outcome.kind = "exception"
    THEN HTTPException(500, <<"Error generating content: ">> \o outcome.v)
    ELSE IF ~Truthy(outcome.v)
    THEN HTTPException(500, <<"Error generating content: ">>
             \o StrHTTPException(HTTPException(500, <<"No content generated">>)))
    ELSE Ok([result |-> outcome.v, prompt |-> req.prompt])

GenerateContentReturn(r, outcome) ==
    /\ reqs[r].pc = "calling"
    /\ reqs[r].endpoint = "generate"
    /\ Returned(r, outcome, GenerateContentResult(ReqOf(r), outcome))
    /\ UNCHANGED <<API_KEY, svc, run>>

(* ------------------------- /health, /models, / ------------------------ *)
HealthPayload == [status |-> "healthy", service |-> "Gemini Canvas App"]

HealthCheck(r) ==
    /\ Accepts(r)
    /\ Done(r, "health", NoBody, Ok(HealthPayload))
    /\ UNCHANGED <<API_KEY, svc, run>>

\* list_models up to the call of genai.list_models()
ListModels(r) ==
    /\ Accepts(r)
    /\ Calling(r, "models", NoBody, <<>>)
    /\ UNCHANGED <<API_KEY, svc, run>>

ListModelsResult(outcome) ==
    IF outcome.kind = "exception"
    THEN HTTPException(500, <<"Error listing models: ">> \o outcome.v)
    ELSE Ok([models |-> outcome.v])

ListModelsReturn(r, outcome) ==
    /\ reqs[r].pc = "calling"
    /\ reqs[r].endpoint = "models"
    /\ Returned(r, outcome, ListModelsResult(outcome))
    /\ UNCHANGED <<API_KEY, svc, run>>

GetFrontend(r) ==
    /\ Accepts(r)
    /\ Done(r, "frontend", NoBody, Ok(<<"html_content">>))
    /\ UNCHANGED <<API_KEY, svc, run>>

\* the <option> values of the page's style select
StyleOptions == {<<>>, <<"formal">>, <<"casual">>, <<"professional">>, <<"creative">>}

\* the page's processText(): POST /process with {text, action, style}, the
\* style always sent as a string ("" for Default)
processText(r, text, action, style) ==
    /\ Truthy(Strip(text))
    /\ ProcessText(r, TextRequest(text, action, Some(style)))

\* the response has been sent; the slot serves the next request
Respond(r) ==
    /\ reqs[r].pc = "done"
    /\ reqs' = [reqs EXCEPT ![r] = IdleFrame]
    /\ UNCHANGED <<API_KEY, svc, run>>

(* ----------------------- the Streamlit script ------------------------- *)
\* a run with st.button("Submit") False: the text area holds p, nothing is shown
ScriptEdit(p) ==
    /\ run.pc # "calling"
    /\ run' = [IdleRun EXCEPT !.prompt = p]
    /\ UNCHANGED <<API_KEY, svc, reqs>>

\* a run with st.button("Submit") True, up to client.models.generate_content
ScriptSubmit ==
    /\ run.pc # "calling"
    /\ run' = IF Truthy(run.prompt)
              THEN [IdleRun EXCEPT !.prompt = run.prompt, !.submitted = TRUE,
                                   !.pc = "calling", !.call = Some(run.prompt),
                                   !.ncalls = 1]
              ELSE [IdleRun EXCEPT !.prompt = run.prompt, !.submitted = TRUE,
                                   !.pc = "done"]
    /\ UNCHANGED <<API_KEY, svc, reqs>>

\* as if the except clause showed nothing
ScriptDisplaySilent(outcome) ==
    IF outcome.kind = "exception"
    THEN NoReply
    ELSE [kind |-> "response", v |-> outcome.v]

\* st.subheader("Response:"); st.write(response.text)  /  st.error(f"Error: {e}")
ScriptDisplay(outcome) ==
    IF outcome.kind = "exception"
    THEN [kind |-> "error", v |-> <<"Error: ">> \o outcome.v]
    ELSE [kind |-> "response", v |-> outcome.v]

ScriptReturn(outcome) ==
    /\ run.pc = "calling"
    /\ run' = [run EXCEPT !.pc = "done", !.reply = outcome,
                          !.display = ScriptDisplay(outcome)]
    /\ UNCHANGED <<API_KEY, svc, reqs>>

(* --------------------------- specifications --------------------------- *)
Texts == SeqsUpTo(Chars, MaxLen)
ActionInputs == Actions \cup {"unknown", "Rewrite"}
StyleInputs == {None, Some(<<>>), Some(<<"formal">>)}
MaxTokenInputs == {DefaultMaxTokens}

TextRequests ==
    {TextRequest(t, a, s) : t \in Texts, a \in ActionInputs, s \in StyleInputs}
GenerateRequests == {GenerateRequest(p, m) : p \in Texts, m \in MaxTokenInputs}

\* both programs: the service handling one request at a time and the script,
\* over every input up to MaxLen
Next ==
    \/ Startup
    \/ \E req \in TextRequests : ProcessText(1, req)
    \/ \E o \in GenerateOutcomes : ProcessTextReturn(1, o)
    \/ \E req \in GenerateRequests : GenerateContent(1, req)
    \/ \E o \in GenerateOutcomes : GenerateContentReturn(1, o)
    \/ HealthCheck(1)
    \/ ListModels(1)
    \/ \E o \in ListOutcomes : ListModelsReturn(1, o)
    \/ GetFrontend(1)
    \/ \E t \in Texts, a \in Actions, s \in StyleOptions : processText(1, t, a, s)
    \/ Respond(1)
    \/ \E p \in Texts : ScriptEdit(p)
    \/ ScriptSubmit
    \/ \E o \in GenerateOutcomes : ScriptReturn(o)

Spec == Init /\ [][Next]_vars

\* the service handling NReq requests concurrently, in every interleaving of
\* the handlers' steps, over a fixed set of requests
ConcTexts == {<<" ">>, <<" ", "a", " ">>}
ConcActions == Actions \cup {"unknown"}
ConcStyles == {None, Some(<<"formal">>)}
ConcTextRequests ==
    {TextRequest(t, a, s) : t \in ConcTexts, a \in ConcActions, s \in ConcStyles}
ConcGenerateRequests == {GenerateRequest(p, DefaultMaxTokens) : p \in ConcTexts}
ConcOutcomes ==
    {TextReply(<<"x">>), TextReply(<<"y">>), TextReply(<<>>), Raised(<<"quota exceeded">>)}
ConcListOutcomes == {ListReply(ModelNames), Raised(<<"quota exceeded">>)}

ConcNext ==
    \/ Startup
    \/ \E r \in Slots :
        \/ \E req \in ConcTextRequests : ProcessText(r, req)
        \/ \E o \in ConcOutcomes : ProcessTextReturn(r, o)
        \/ \E req \in ConcGenerateRequests : GenerateContent(r, req)
        \/ \E o \in ConcOutcomes : GenerateContentReturn(r, o)
        \/ HealthCheck(r)
        \/ ListModels(r)
        \/ \E o \in ConcListOutcomes : ListModelsReturn(r, o)
        \/ GetFrontend(r)
        \/ \E t \in ConcTexts : processText(r, t, "rewrite", <<"formal">>)
        \/ Respond(r)

ConcSpec == Init /\ [][ConcNext]_vars

(* ------------------------------ claims -------------------------------- *)
IsBlank(s) == \A i \in 1..Len(s) : s[i] \in {" ", "\t", "\n", "\r"}
InProcess(r) == reqs[r].pc # "idle" /\ reqs[r].endpoint = "process"
InGenerate(r) == reqs[r].pc # "idle" /\ reqs[r].endpoint = "generate"
InModels(r) == reqs[r].pc # "idle" /\ reqs[r].endpoint = "models"
Answered(r) == reqs[r].pc = "done"
Status(r) == reqs[r].response.status

\* C1: a POST /process request whose text is empty or only whitespace is
\* answered with HTTP 400, whatever its action and style; it never reaches
\* the external call.
C1_BlankTextIs400 ==
    \A r \in Slots :
        (InProcess(r) /\ IsBlank(reqs[r].req.text)) =>
            (Answered(r) /\ Status(r) = 400)

\* a whitespace-only text with a recognized action has been answered
C1_Witness ==
    \E r \in Slots :
        /\ InProcess(r) /\ Answered(r) /\ Status(r) = 400
        /\ reqs[r].req.text = <<" ", " ">>
        /\ reqs[r].req.action = "summarize"
        /\ reqs[r].req.style = Some(<<"formal">>)

\* C2: a POST /process request with non-blank text and an action that is not
\* one of the five is answered with HTTP 400 and a detail that names the
\* action that was sent.
C2_UnknownActionIs400 ==
    \A r \in Slots :
        (/\ InProcess(r)
         /\ ~IsBlank(reqs[r].req.text)
         /\ reqs[r].req.action \notin
                {"rewrite", "summarize", "expand", "improve", "simplify"}) =>
            /\ Answered(r)
            /\ Status(r) = 400
            /\ Contains(reqs[r].response.detail, <<reqs[r].req.action>>)
            /\ reqs[r].ncalls = 0

C2_Witness ==
    \E r \in Slots :
        /\ InProcess(r) /\ Answered(r) /\ Status(r) = 400
        /\ reqs[r].req.text = <<" ", "a">>
        /\ reqs[r].req.action = "Rewrite"
        /\ reqs[r].response.detail = <<"Unsupported action: ", "Rewrite">>

HasPrompt(r) == InProcess(r) /\ reqs[r].call.some
Prompt(r) == reqs[r].call.v

\* C3: the prompt that process_text passes to the external API starts with the
\* action's fixed template text and ends with the request's text exactly as
\* received (not trimmed, cut or altered), and requests with the same action,
\* style and text get the same prompt, whatever else the service is doing.
C3_PromptTemplateThenText ==
    /\ \A r \in Slots :
          HasPrompt(r) =>
              /\ StartsWith(Prompt(r), Template(reqs[r].req.action))
              /\ EndsWith(Prompt(r), reqs[r].req.text)
    /\ \A r, q \in Slots :
          (HasPrompt(r) /\ HasPrompt(q) /\ reqs[r].req = reqs[q].req) =>
              Prompt(r) = Prompt(q)

\* two requests with the same input, a text with leading and trailing blanks,
\* have both been sent on
C3_Witness ==
    \E r, q \in Slots :
        /\ r # q
        /\ HasPrompt(r) /\ HasPrompt(q)
        /\ reqs[r].req = reqs[q].req
        /\ reqs[r].req.text = <<" ", "a", " ">>
        /\ reqs[r].req.action = "simplify"
        /\ reqs[q].pc = "done"

\* what the prompt holds between the template text and the user text
Between(r) ==
    SubSeq(Prompt(r), Len(Template(reqs[r].req.action)) + 1,
           Len(Prompt(r)) - Len(reqs[r].req.text))
ToneClause(style) == <<" Make the tone ">> \o style \o <<".">>
HasNoToneClause(s) == \A i \in 1..Len(s) : s[i] # " Make the tone "

\* C4 as stated: every style value that is supplied puts the clause
\* " Make the tone {style}." between the template text and the user text, and
\* an omitted style puts no clause there.
C4_Original ==
    \A r \in Slots :
        HasPrompt(r) =>
            IF reqs[r].req.style.some
            THEN StartsWith(Between(r), ToneClause(reqs[r].req.style.v))
            ELSE HasNoToneClause(Between(r))

\* C4 amended: every non-empty style value that is supplied puts the clause
\* " Make the tone {style}." between the template text and the user text; a
\* style that is omitted or is the empty string (what the test page sends for
\* Default) puts no clause there.
C4_StyleClause ==
    \A r \in Slots :
        HasPrompt(r) =>
            IF reqs[r].req.style.some /\ reqs[r].req.style.v # <<>>
            THEN Between(r) = ToneClause(reqs[r].req.style.v) \o <<":\n\n">>
            ELSE Between(r) = <<":\n\n">>

C4_Witness ==
    \E r \in Slots :
        /\ HasPrompt(r)
        /\ reqs[r].req.style = Some(<<"formal">>)
        /\ reqs[r].req.text = <<" ", "a">>
        /\ Prompt(r) = <<"Expand the following into more detailed content",
                         " Make the tone ", "formal", ".", ":\n\n", " ", "a">>

Failed(reply) == reply.kind = "exception"
EmptyText(reply) == reply.kind = "text" /\ reply.v = <<>>

\* C5: on each of the four paths that call the external API (/process,
\* /generate, /models and the script) an exception raised by the call ends in
\* a server error (HTTP 500, or the script's error display) whose message
\* contains the exception's text; it is never a success or a client error.
C5_ExceptionIsServerError ==
    /\ \A r \in Slots :
          (Answered(r) /\ Failed(reqs[r].reply)) =>
              /\ reqs[r].endpoint \in {"process", "generate", "models"}
              /\ Status(r) = 500
              /\ Contains(reqs[r].response.detail, reqs[r].reply.v)
    /\ (run.pc = "done" /\ Failed(run.reply)) =>
          /\ run.display.kind = "error"
          /\ Contains(run.display.v, run.reply.v)

\* the script shows one failure while /process has answered another
C5_Witness ==
    /\ run.pc = "done" /\ run.reply = Raised(<<"quota exceeded">>)
    /\ run.display = [kind |-> "error", v |-> <<"Error: ", "quota exceeded">>]
    /\ InProcess(1) /\ Answered(1)
    /\ reqs[1].reply = Raised(<<"API key not valid">>)
    /\ reqs[1].response =
           [status |-> 500, detail |-> <<"Error processing text: ", "API key not valid">>]

\* C6: an answer of the external API that carries an empty text is handled as
\* a failure on every path: /process and /generate answer HTTP 500, and the
\* script does not present the empty text as a response.
C6_EmptyTextIsFailure ==
    /\ \A r \in Slots :
          (Answered(r) /\ EmptyText(reqs[r].reply)) => Status(r) = 500
    /\ (run.pc = "done" /\ EmptyText(run.reply)) => run.display.kind = "error"

\* C7: when the API key is absent or empty at start-up the service never
\* serves: no handler runs and no external call is made.
C7_NoKeyNoService ==
    (API_KEY = None \/ API_KEY.v = <<>>) =>
        /\ svc # "serving"
        /\ \A r \in Slots : reqs[r].pc = "idle" /\ reqs[r].ncalls = 0

\* start-up has run with an empty key and has failed
C7_Witness == API_KEY = Some(<<>>) /\ svc = "crashed"

Shown(kind) == kind \in {"response", "error"}

\* C8 as stated: the script calls the external API only after a submission
\* and with the prompt as entered, and every submission ends with the
\* returned text or the error message on display.
C8_Original ==
    /\ run.ncalls > 0 => run.submitted
    /\ run.call.some => run.call.v = run.prompt
    /\ (run.submitted /\ run.pc = "done") => Shown(run.display.kind)

\* C8 amended: the script calls the external API only after a submission and
\* with the prompt as entered; every submission of a non-empty prompt makes
\* one call and ends with the returned text or the error message on display,
\* and a submission of an empty prompt makes no call and displays nothing.
C8_SubmitCallsThenDisplays ==
    /\ run.ncalls > 0 => run.submitted
    /\ run.call.some => run.call.v = run.prompt
    /\ (run.submitted /\ run.pc = "done" /\ run.prompt # <<>>) =>
          /\ run.ncalls = 1
          /\ Shown(run.display.kind)
          /\ run.display.kind = "response" => run.display.v = run.reply.v
          /\ run.display.kind = "error" => Contains(run.display.v, run.reply.v)
    /\ (run.submitted /\ run.prompt = <<>>) =>
          /\ run.pc = "done" /\ run.ncalls = 0 /\ run.display.kind = "none"

\* a prompt with a leading blank was submitted and its failure is on display
C8_Witness ==
    /\ run.submitted /\ run.pc = "done"
    /\ run.prompt = <<" ", "a">>
    /\ run.call = Some(<<" ", "a">>)
    /\ run.display.kind = "error"

ValidInput(r) ==
    \/ /\ InProcess(r)
       /\ ~IsBlank(reqs[r].req.text)
       /\ reqs[r].req.action \in {"rewrite", "summarize", "expand", "improve", "simplify"}
    \/ InGenerate(r) /\ ~IsBlank(reqs[r].req.prompt)

\* C9: a /process or /generate request makes at most one external call: one
\* when its input is valid, none when it is rejected with 400; after a failed
\* or empty call it answers 500 without calling again and without a result.
C9_AtMostOneCall ==
    \A r \in Slots :
        (InProcess(r) \/ InGenerate(r)) =>
            /\ reqs[r].ncalls <= 1
            /\ reqs[r].ncalls = 1 <=> ValidInput(r)
            /\ (Answered(r) /\ Status(r) = 400) =>
                  reqs[r].ncalls = 0 /\ reqs[r].reply = NoReply
            /\ (reqs[r].reply # NoReply /\
                (Failed(reqs[r].reply) \/ EmptyText(reqs[r].reply))) =>
                  /\ Answered(r)
                  /\ Status(r) = 500
                  /\ DOMAIN reqs[r].response = {"status", "detail"}

\* /generate has answered 500 after one call that returned an empty text
C9_Witness ==
    /\ InGenerate(1) /\ Answered(1)
    /\ reqs[1].reply = TextReply(<<>>)
    /\ reqs[1].ncalls = 1
    /\ Status(1) = 500

OwnAnswer(r) ==
    /\ (InProcess(r) /\ reqs[r].call.some) =>
          EndsWith(reqs[r].call.v, reqs[r].req.text)
    /\ (InGenerate(r) /\ reqs[r].call.some) => reqs[r].call.v = reqs[r].req.prompt
    /\ ((InProcess(r) \/ InGenerate(r)) /\ Answered(r) /\ reqs[r].call.some) =>
          Status(r) = IF Failed(reqs[r].reply) \/ EmptyText(reqs[r].reply)
                      THEN 500 ELSE 200
    /\ (InProcess(r) /\ Answered(r) /\ Status(r) = 200) =>
          /\ reqs[r].response.body.result = reqs[r].reply.v
          /\ reqs[r].response.body.action = reqs[r].req.action
          /\ reqs[r].response.body.style = reqs[r].req.style
    /\ (InGenerate(r) /\ Answered(r) /\ Status(r) = 200) =>
          /\ reqs[r].response.body.result = reqs[r].reply.v
          /\ reqs[r].response.body.prompt = reqs[r].req.prompt

OneFrameAtATime ==
    /\ \A r, q \in Slots : (r # q /\ reqs'[r] # reqs[r]) => reqs'[q] = reqs[q]
    /\ svc = "serving" => (svc' = svc /\ API_KEY' = API_KEY)

\* C10: in every interleaving of concurrently handled requests each answer
\* comes from the request's own input and the reply to its own call (result,
\* action, style and prompt echo are its own; it fails exactly when its own
\* call failed or came back empty), and a step of one handler changes no
\* other request's frame and nothing the handlers share.
C10_RequestsIndependent == [](\A r \in Slots : OwnAnswer(r)) /\ [][OneFrameAtATime]_vars

\* one request has failed while another, sent a different action, has
\* succeeded with its own reply
C10_Witness ==
    \E r, q \in Slots :
        /\ r # q
        /\ InProcess(r) /\ Answered(r) /\ Status(r) = 500
        /\ reqs[r].req.action = "rewrite"
        /\ InProcess(q) /\ Answered(q) /\ Status(q) = 200
        /\ reqs[q].req.action = "expand"
        /\ reqs[q].response.body.result = <<"y">>

====
